---- MODULE Spec2Model ----
(***************************************************************************)
(* tap-query: result-set operators (filter.rs), attribute matching         *)
(* (attribute.rs), content search (data.rs) and timeline (timeline.rs).    *)
(*                                                                         *)
(* TreeNodeId values are modelled as naturals, attribute names and texts   *)
(* as strings, file bytes as small naturals (0 is the NUL byte).           *)
(***************************************************************************)
EXTENDS Integers, Sequences, FiniteSets, TLC

VARIABLES
  pc,      \* position of the current call: "idle", "running", "done", "error", or the Op applied
  tree,    \* the Tree: its ids (the function's domain) -> node record, and its paths
  call,    \* the operation called and its arguments
  nodes,   \* the candidate id list handed to the fan-out
  slot,    \* per candidate index: whether its worker has run, and what it returned
  result,  \* the Vec the call returned (empty before it returns and when it fails)
  entry,   \* the entry point the call came through, with its path argument
  left,    \* Op: left operand
  right    \* Op: right operand

vars == <<pc, tree, call, nodes, slot, result, entry, left, right>>

(***************************************************************************)
(* Bounds of the model.                                                    *)
(***************************************************************************)
MaxId  == 3    \* Op operands hold ids 1..MaxId
MaxLen == 3    \* Op operands hold at most MaxLen ids

Ids == 1..MaxId

RECURSIVE SeqsUpTo(_, _)
SeqsUpTo(S, n) ==
  IF n = 0 THEN {<<>>}
  ELSE LET shorter == SeqsUpTo(S, n - 1)
       IN  shorter \cup {Append(s, x) : s \in {t \in shorter : Len(t) = n - 1}, x \in S}

ToSet(v) == {v[i] : i \in 1..Len(v)}

NoTree == [node |-> <<>>, path |-> <<>>]
NoCall == [op |-> "none"]
Direct == [name |-> "direct", path |-> ""]

(***************************************************************************)
(* filter.rs: Op                                                           *)
(***************************************************************************)
\* Vec::contains
contains(v, id) == \E i \in 1..Len(v) : v[i] = id

\* Vec::sort on ids: ascending, stable (insertion of each element after its equals)
RECURSIVE insert_sorted(_, _)
insert_sorted(v, x) ==
  IF v = <<>> THEN <<x>>
  ELSE IF x < Head(v) THEN <<x>> \o v
  ELSE <<Head(v)>> \o insert_sorted(Tail(v), x)

RECURSIVE sort(_)
sort(v) == IF v = <<>> THEN <<>> ELSE insert_sorted(sort(SubSeq(v, 1, Len(v) - 1)), v[Len(v)])

\* Vec::dedup: removes consecutive repeated elements
RECURSIVE dedup(_)
dedup(v) ==
  IF Len(v) <= 1 THEN v
  ELSE IF v[1] = v[2] THEN dedup(Tail(v))
  ELSE <<v[1]>> \o dedup(Tail(v))

and_not_swapped(l, r) == dedup(sort(SelectSeq(l, LAMBDA id : ~contains(r, id))))
and_not(l, r) == dedup(sort(SelectSeq(r, LAMBDA id : ~contains(l, id))))

and_unsorted(l, r) == SelectSeq(r, LAMBDA id : contains(l, id))
and(l, r) == dedup(sort(SelectSeq(r, LAMBDA id : contains(l, id))))

or(l, r) == dedup(sort(l \o r))

InitOp ==
  /\ pc = "idle"
  /\ left \in SeqsUpTo(Ids, MaxLen)
  /\ right \in SeqsUpTo(Ids, MaxLen)
  /\ result = <<>>
  /\ tree = NoTree /\ call = NoCall /\ nodes = <<>> /\ slot = <<>> /\ entry = Direct

OpAndNot ==
  /\ pc = "idle"
  /\ result' = and_not(left, right)
  /\ pc' = "and_not"
  /\ UNCHANGED <<tree, call, nodes, slot, entry, left, right>>

OpAnd ==
  /\ pc = "idle"
  /\ result' = and(left, right)
  /\ pc' = "and"
  /\ UNCHANGED <<tree, call, nodes, slot, entry, left, right>>

OpOr ==
  /\ pc = "idle"
  /\ result' = or(left, right)
  /\ pc' = "or"
  /\ UNCHANGED <<tree, call, nodes, slot, entry, left, right>>

NextOp == OpAndNot \/ OpAnd \/ OpOr

SpecOp == InitOp /\ [][NextOp]_vars

\* a list is canonical: strictly ascending, hence free of duplicates
Canonical(v) == \A i \in 1..Len(v) - 1 : v[i] < v[i + 1]

\* C1: as sets, and = intersection, or = union, and_not = right minus left;
\* and_not(A,A) = {}, or(A,A) = the ids of A, and(A,{}) = {}.
C1_OpsAreSetOps ==
  /\ pc = "and" => ToSet(result) = ToSet(left) \cap ToSet(right)
  /\ pc = "or" => ToSet(result) = ToSet(left) \cup ToSet(right)
  /\ pc = "and_not" => ToSet(result) = ToSet(right) \ ToSet(left)
  /\ (pc = "and_not" /\ left = right) => result = <<>>
  /\ (pc = "or" /\ left = right) => ToSet(result) = ToSet(left)
  /\ (pc = "and" /\ right = <<>>) => result = <<>>

\* and_not applied to unsorted operands with duplicates, where right minus left
\* and left minus right differ and are both non-empty
C1_Witness ==
  /\ pc = "and_not"
  /\ left = <<3, 1, 3>>
  /\ right = <<2, 3, 2>>
  /\ result = <<2>>

\* C2: the output of and, or and and_not is strictly ascending (no duplicate)
C2_OutputCanonical == pc \in {"and", "or", "and_not"} => Canonical(result)

\* and applied to an unsorted right operand with a repeated id, all of it kept
C2_Witness ==
  /\ pc = "and"
  /\ right = <<3, 1, 3>>
  /\ result = <<1, 3>>

(***************************************************************************)
(* attribute.rs: MatcherMethod                                             *)
(*                                                                         *)
(* Patterns are strings. The regex syntax modelled is: a literal           *)
(* character, "." (any character), and "(" which, never closed, makes the  *)
(* pattern fail to compile. The wildcard syntax modelled is: a literal     *)
(* character, "?" (any one character) and "*" (any run of characters).     *)
(***************************************************************************)
Ch(s, i) == SubSeq(s, i, i)

\* Regex::new(query) is Ok
regex_compiles(p) == \A i \in 1..Len(p) : Ch(p, i) # "("

\* Regex::is_match: the expression matches somewhere in the value (unanchored)
regex_is_match(p, v) ==
  \E off \in 0..(Len(v) - Len(p)) :
    \A j \in 1..Len(p) : Ch(p, j) = "." \/ Ch(p, j) = Ch(v, off + j)

\* WildMatch::matches: the whole value matches the glob
RECURSIVE wild_matches(_, _)
wild_matches(p, v) ==
  IF Len(p) = 0 THEN Len(v) = 0
  ELSE IF Head(p) = "*"
       THEN wild_matches(Tail(p), v) \/ (Len(v) > 0 /\ wild_matches(p, Tail(v)))
  ELSE /\ Len(v) > 0
       /\ (Head(p) = "?" \/ Head(p) = Head(v))
       /\ wild_matches(Tail(p), Tail(v))

\* ClangdMatcher::fuzzy_match(value, query).is_some(): the query's characters
\* occur in the value in order
RECURSIVE fuzzy_match(_, _)
fuzzy_match(v, q) ==
  IF Len(q) = 0 THEN TRUE
  ELSE IF Len(v) = 0 THEN FALSE
  ELSE IF Head(v) = Head(q) THEN fuzzy_match(Tail(v), Tail(q))
  ELSE fuzzy_match(Tail(v), q)

MatchMethod == {"Fixed", "Regex", "Wildcard", "Fuzzy"}

\* MatcherMethod::new(method_type, query) returns Ok
new_always_ok(method_type, query) == TRUE
new_ok(method_type, query) == method_type = "Regex" => regex_compiles(query)

\* the MatcherMethod built by MatcherMethod::new: Regex and Wildcard hold the
\* compiled query, Fixed and Fuzzy hold nothing
new(method_type, query) ==
  [method |-> method_type,
   compiled |-> IF method_type \in {"Regex", "Wildcard"} THEN query ELSE ""]

\* MatcherMethod::is_match(&self, query, value)
is_match(matcher, query, value) ==
  CASE matcher.method = "Fixed" -> value = query
    [] matcher.method = "Regex" -> regex_is_match(matcher.compiled, value)
    [] matcher.method = "Wildcard" -> wild_matches(matcher.compiled, value)
    [] matcher.method = "Fuzzy" -> fuzzy_match(value, query)

(***************************************************************************)
(* The attributes of a node (tap::attribute::Attribute as attribute.rs     *)
(* reads it): name(), type_id(), value().to_string() as text, and for the  *)
(* kinds Attributes and ReflectStruct the child attribute list attrs.      *)
(***************************************************************************)
IsContainer(a) == a.type \in {"Attributes", "ReflectStruct"}

\* the path handed down without the ancestors' names
child_dotted_last(dotted_attrib, attribute) == attribute.name

\* the path handed down to the children of `attribute`
child_dotted(dotted_attrib, attribute) ==
  IF Len(dotted_attrib) = 0 THEN attribute.name
  ELSE dotted_attrib \o "." \o attribute.name

\* match_attribute_dotted_name(dotted_attrib, attribute, query_value, matcher)
RECURSIVE match_attribute_dotted_name(_, _, _, _)
match_attribute_dotted_name(dotted_attrib, attribute, query_value, matcher) ==
  \/ /\ attribute.type = "Attributes"
     /\ \E i \in 1..Len(attribute.attrs) :
          match_attribute_dotted_name(child_dotted(dotted_attrib, attribute),
                                      attribute.attrs[i], query_value, matcher)
  \/ /\ attribute.type = "ReflectStruct"
     /\ \E i \in 1..Len(attribute.attrs) :
          match_attribute_dotted_name(child_dotted(dotted_attrib, attribute),
                                      attribute.attrs[i], query_value, matcher)
  \/ IF Len(dotted_attrib) = 0
     THEN is_match(matcher, query_value, attribute.name)
     ELSE is_match(matcher, query_value, dotted_attrib \o "." \o attribute.name)

\* match_attributes_dotted_name(node, query_value, matcher)
match_attributes_dotted_name(node, query_value, matcher) ==
  \E i \in 1..Len(node.attributes) :
    match_attribute_dotted_name("", node.attributes[i], query_value, matcher)

\* match_attribute_name_and_value(dotted_attrib, attribute, query_attr_name,
\*                                name_matcher, query_attr_value, value_matcher)
RECURSIVE match_attribute_name_and_value(_, _, _, _, _, _)
match_attribute_name_and_value(dotted_attrib, attribute, qname, name_matcher, qvalue, value_matcher) ==
  \/ /\ attribute.type = "Attributes"
     /\ \E i \in 1..Len(attribute.attrs) :
          match_attribute_name_and_value(child_dotted(dotted_attrib, attribute),
                                         attribute.attrs[i], qname, name_matcher, qvalue, value_matcher)
  \/ /\ attribute.type = "ReflectStruct"
     /\ \E i \in 1..Len(attribute.attrs) :
          match_attribute_name_and_value(child_dotted(dotted_attrib, attribute),
                                         attribute.attrs[i], qname, name_matcher, qvalue, value_matcher)
  \/ IF Len(dotted_attrib) = 0
     THEN /\ is_match(name_matcher, qname, attribute.name)
          /\ is_match(value_matcher, qvalue, attribute.text)
     ELSE /\ is_match(name_matcher, qname, dotted_attrib \o "." \o attribute.name)
          /\ is_match(value_matcher, qvalue, attribute.text)

\* a name match and a value match looked for independently of each other
name_and_value_anywhere(node, qname, name_matcher, qvalue, value_matcher) ==
  /\ \E i \in 1..Len(node.attributes) :
       match_attribute_dotted_name("", node.attributes[i], qname, name_matcher)
  /\ \E i \in 1..Len(node.attributes) :
       match_attribute_name_and_value("", node.attributes[i], qname, new("Wildcard", "*"),
                                      qvalue, value_matcher)

\* match_attribute_name_value(node, query_attr_name, name_matcher, query_attr_value, value_matcher)
match_attribute_name_value(node, qname, name_matcher, qvalue, value_matcher) ==
  \E i \in 1..Len(node.attributes) :
    match_attribute_name_and_value("", node.attributes[i], qname, name_matcher, qvalue, value_matcher)

(***************************************************************************)
(* data.rs: content search.                                                *)
(*                                                                         *)
(* A file (VFileBuilder) is: whether open() succeeds, the declared size(), *)
(* the bytes of the stream, and the outcome of each read() in turn: -1 is  *)
(* Err, r >= 0 is Ok(n) with n at most r, at most the buffer handed in and *)
(* at most what is left of the stream; reads after the listed ones fill    *)
(* the buffer as far as the stream allows.                                 *)
(* A byte pattern is a sequence of literal bytes; the token Paren is a     *)
(* group never closed, with which the pattern does not compile.            *)
(***************************************************************************)
ChunkSize == 2     \* stands for the 4096 bytes of buff

NL    == 10        \* the line terminator
Paren == 40

Min(a, b) == IF a < b THEN a ELSE b

\* RegexBuilder::build() / RegexMatcher::new() is Ok
bytes_compiles(p) == \A i \in 1..Len(p) : p[i] # Paren

\* regex::bytes::Regex::is_match on a byte slice (unanchored)
bytes_is_match(p, b) ==
  \E off \in 0..(Len(b) - Len(p)) : \A j \in 1..Len(p) : p[j] = b[off + j]

\* node.value().get_value("data"): the index of the first attribute named
\* "data", 0 when there is none
data_index(node) ==
  IF \E i \in 1..Len(node.attributes) : node.attributes[i].name = "data"
  THEN CHOOSE i \in 1..Len(node.attributes) :
         /\ node.attributes[i].name = "data"
         /\ \A j \in 1..(i - 1) : node.attributes[j].name # "data"
  ELSE 0

\* file.read(&mut buff) as the k-th read at stream position pos, into a buffer
\* of cap bytes: -1 for Err, else the number of bytes delivered
read_len(file, pos, k, cap) ==
  LET r == IF k <= Len(file.reads) THEN file.reads[k] ELSE cap
  IN  IF r < 0 THEN -1 ELSE Min(Min(r, cap), Len(file.content) - pos)

\* buff after a read of n bytes at pos: the bytes read, then what buff held
read_into(buff, file, pos, n) ==
  [i \in 1..Len(buff) |-> IF i <= n THEN file.content[pos + i] ELSE buff[i]]

\* the while loop of match_data_regex; returns whether the node matches and
\* the failure the scan ran into, if any
RECURSIVE scan_chunks(_, _, _, _, _, _)
scan_chunks(file, query_compiled, buff, readed, pos, k) ==
  IF ~(readed < file.size) THEN [matched |-> FALSE, fault |-> "none"]
  ELSE LET n == read_len(file, pos, k, Len(buff))
       IN  IF n < 0 THEN [matched |-> FALSE, fault |-> "read error"]
           ELSE IF n <= 0 THEN [matched |-> FALSE, fault |-> "zero read"]
           ELSE LET filled == read_into(buff, file, pos, n)
                IN  IF bytes_is_match(query_compiled, filled)
                    THEN [matched |-> TRUE, fault |-> "none"]
                    ELSE scan_chunks(file, query_compiled, filled, readed + n, pos + n, k + 1)

\* the data attribute of a node as both searches get to it
open_data(node) ==
  LET i == data_index(node)
  IN  IF i = 0 THEN "no data"
      ELSE IF node.attributes[i].type # "VFileBuilder" THEN "not a file"
      ELSE IF ~node.attributes[i].file.opens THEN "open error"
      ELSE "none"

data_file(node) == node.attributes[data_index(node)].file

\* match_data_regex(node, query_compiled)
match_data_regex(node, query_compiled) ==
  IF open_data(node) # "none" THEN [matched |-> FALSE, fault |-> open_data(node)]
  ELSE scan_chunks(data_file(node), query_compiled, [i \in 1..ChunkSize |-> 0], 0, 0, 1)

\* grep_searcher reading the file to its end or to a read error: the bytes
\* delivered, and how the reading stopped
RECURSIVE read_all(_, _, _, _)
read_all(file, acc, pos, k) ==
  LET n == read_len(file, pos, k, Len(file.content) + 1)
  IN  IF n < 0 THEN [bytes |-> acc, fault |-> "read error"]
      ELSE IF n = 0
           THEN [bytes |-> acc, fault |-> IF pos < file.size THEN "zero read" ELSE "none"]
      ELSE read_all(file, acc \o SubSeq(file.content, pos + 1, pos + n), pos + n, k + 1)

\* the lines of a byte sequence: each run of bytes up to a terminator, and
\* the unterminated rest when with_rest
RECURSIVE lines_of(_, _, _)
lines_of(bytes, current, with_rest) ==
  IF Len(bytes) = 0 THEN (IF with_rest /\ Len(current) > 0 THEN {current} ELSE {})
  ELSE IF Head(bytes) = NL THEN {current} \cup lines_of(Tail(bytes), <<>>, with_rest)
  ELSE lines_of(Tail(bytes), Append(current, Head(bytes)), with_rest)

\* match_data_line(node, query_compiled): the sink is called for each matching
\* line the searcher has delimited; a read error ends the search (its Err is
\* dropped) with the unterminated rest unsearched, the end of the stream ends
\* it with the rest searched as the last line
match_data_line(node, query_compiled) ==
  IF open_data(node) # "none" THEN [matched |-> FALSE, fault |-> open_data(node)]
  ELSE LET r == read_all(data_file(node), <<>>, 0, 1)
       IN  [matched |-> \E line \in lines_of(r.bytes, <<>>, r.fault # "read error") :
                          bytes_is_match(query_compiled, line),
            fault |-> r.fault]

(***************************************************************************)
(* The Tree (tap::tree::Tree as the queries read it).                      *)
(***************************************************************************)
\* tree.get_node_from_id(id) is Some
has_node(id) == id \in DOMAIN tree.node

\* tree.children_rec(Some(path)) is Some
has_path(path) == path \in DOMAIN tree.path

(***************************************************************************)
(* timeline.rs                                                             *)
(***************************************************************************)
\* match_time_rec(dotted_attrib, node_id, attribute, times, min_time, max_time):
\* the TimeInfo it pushes, in order; match_time_each is its for loop
RECURSIVE match_time_rec(_, _, _, _, _), match_time_each(_, _, _, _, _)
match_time_rec(dotted_attrib, node_id, attribute, min_time, max_time) ==
  IF attribute.type = "Attributes"
  THEN match_time_each(child_dotted(dotted_attrib, attribute), node_id, attribute.attrs, min_time, max_time)
  ELSE IF attribute.type = "ReflectStruct"
  THEN match_time_each(child_dotted(dotted_attrib, attribute), node_id, attribute.attrs, min_time, max_time)
  ELSE IF attribute.type = "DateTime"
  THEN IF attribute.time >= min_time /\ attribute.time <= max_time
       THEN <<[time |-> attribute.time,
               attribute_name |-> IF Len(dotted_attrib) = 0 THEN attribute.name
                                  ELSE dotted_attrib \o "." \o attribute.name,
               id |-> node_id]>>
       ELSE <<>>
  ELSE <<>>
match_time_each(dotted_attrib, node_id, attrs, min_time, max_time) ==
  IF Len(attrs) = 0 THEN <<>>
  ELSE match_time_rec(dotted_attrib, node_id, Head(attrs), min_time, max_time)
       \o match_time_each(dotted_attrib, node_id, Tail(attrs), min_time, max_time)

\* the timestamps of the top-level attributes only
match_time_top_level(node, node_id, min_time, max_time) ==
  match_time_each("", node_id, SelectSeq(node.attributes, LAMBDA a : ~IsContainer(a)), min_time, max_time)

\* match_time(node, node_id, min_time, max_time)
match_time(node, node_id, min_time, max_time) ==
  match_time_each("", node_id, node.attributes, min_time, max_time)

\* times.sort_by(|a, b| a.time.partial_cmp(&b.time)): ascending, stable
RECURSIVE insert_by_time(_, _)
insert_by_time(v, x) ==
  IF v = <<>> THEN <<x>>
  ELSE IF x.time < Head(v).time THEN <<x>> \o v
  ELSE <<Head(v)>> \o insert_by_time(Tail(v), x)

\* the workers' outputs left as collected
sort_by_time_skipped(v) == v

RECURSIVE sort_by_time(_)
sort_by_time(v) ==
  IF v = <<>> THEN <<>>
  ELSE insert_by_time(sort_by_time(SubSeq(v, 1, Len(v) - 1)), v[Len(v)])

(***************************************************************************)
(* The fan-out nodes.par_iter().filter_map(..).collect(): one worker per   *)
(* candidate index, run in any order; collect() returns the workers'       *)
(* outputs in the order of the candidates.                                 *)
(***************************************************************************)
NotRun(ns) == [i \in 1..Len(ns) |-> [done |-> FALSE, out |-> <<>>]]

\* collect() giving up at the first candidate whose worker returned nothing
RECURSIVE FlattenUntilEmpty(_)
FlattenUntilEmpty(ss) ==
  IF Len(ss) = 0 \/ Head(ss).out = <<>> THEN <<>>
  ELSE Head(ss).out \o FlattenUntilEmpty(Tail(ss))

RECURSIVE FlattenInOrder(_)
FlattenInOrder(ss) == IF Len(ss) = 0 THEN <<>> ELSE Head(ss).out \o FlattenInOrder(Tail(ss))

\* collect() followed by a sort and a dedup of the ids
FlattenCanonical(ss) == dedup(sort(FlattenInOrder(ss)))

Flatten(ss) == FlattenInOrder(ss)

\* the closure of match_query's filter_map, on a node the tree holds
match_query_node(node, c) ==
  LET matcher == new(c.method, c.query)
  IN  IF c.query_type = "Name"
      THEN is_match(matcher, c.query, node.name)
      ELSE match_attributes_dotted_name(node, c.query, matcher)

\* the closure of match_attribute_query's filter_map, on a node the tree holds
match_attribute_query_node(node, c) ==
  match_attribute_name_value(node, c.name, new(c.name_method, c.name),
                             c.value, new(c.value_method, c.value))

\* whether the test of a candidate id matches, and the failure it ran into
node_test(id, c) ==
  IF ~has_node(id) THEN [matched |-> FALSE, fault |-> "no node"]
  ELSE CASE c.op = "match_query" ->
              [matched |-> match_query_node(tree.node[id], c), fault |-> "none"]
         [] c.op = "match_attribute_query" ->
              [matched |-> match_attribute_query_node(tree.node[id], c), fault |-> "none"]
         [] c.op = "query_data_regex" -> match_data_regex(tree.node[id], c.query)
         [] c.op = "query_data_line" -> match_data_line(tree.node[id], c.query)

\* what the worker of one candidate id returns: for a filter Some(id) or None
\* (the empty list), for the timeline the node's TimeInfo
filter_map_closure(id, c) ==
  IF c.op = "Timeline::nodes"
  THEN IF has_node(id) THEN match_time(tree.node[id], id, c.min_time, c.max_time) ELSE <<>>
  ELSE IF node_test(id, c).matched THEN <<id>> ELSE <<>>

\* match_query(tree, nodes, query_type, match_method_type, query_value), up to par_iter
MatchQuery(ns, query_type, method, query) ==
  /\ pc = "idle"
  /\ call' = [op |-> "match_query", query_type |-> query_type, method |-> method, query |-> query]
  /\ nodes' = ns
  /\ slot' = NotRun(ns)
  /\ pc' = IF new_ok(method, query) THEN "running" ELSE "error"
  /\ UNCHANGED <<tree, result, left, right>>

\* match_attribute_query(tree, nodes, name, name_match_type, value, value_match_type), up to par_iter
MatchAttributeQuery(ns, name, name_method, value, value_method) ==
  /\ pc = "idle"
  /\ call' = [op |-> "match_attribute_query", name |-> name, name_method |-> name_method,
              value |-> value, value_method |-> value_method]
  /\ nodes' = ns
  /\ slot' = NotRun(ns)
  /\ pc' = IF new_ok(name_method, name) /\ new_ok(value_method, value) THEN "running" ELSE "error"
  /\ UNCHANGED <<tree, result, left, right>>

\* query_data_regex(tree, nodes, query_value), up to par_iter
QueryDataRegex(ns, query) ==
  /\ pc = "idle"
  /\ call' = [op |-> "query_data_regex", query |-> query]
  /\ nodes' = ns
  /\ slot' = NotRun(ns)
  /\ pc' = IF bytes_compiles(query) THEN "running" ELSE "error"
  /\ UNCHANGED <<tree, result, left, right>>

\* query_data_line(tree, nodes, query_value), up to par_iter
QueryDataLine(ns, query) ==
  /\ pc = "idle"
  /\ call' = [op |-> "query_data_line", query |-> query]
  /\ nodes' = ns
  /\ slot' = NotRun(ns)
  /\ pc' = IF bytes_compiles(query) THEN "running" ELSE "error"
  /\ UNCHANGED <<tree, result, left, right>>

\* Timeline::nodes(tree, nodes, min_time, max_time), up to par_iter
TimelineNodes(ns, min_time, max_time) ==
  /\ pc = "idle"
  /\ call' = [op |-> "Timeline::nodes", min_time |-> min_time, max_time |-> max_time]
  /\ nodes' = ns
  /\ slot' = NotRun(ns)
  /\ pc' = "running"
  /\ UNCHANGED <<tree, result, left, right>>

\* Filter::path / Timeline::path when children_rec(Some(path)) is None
InvalidPath(name, path) ==
  /\ pc = "idle"
  /\ ~has_path(path)
  /\ entry' = [name |-> name, path |-> path]
  /\ pc' = "error"
  /\ UNCHANGED <<tree, call, nodes, slot, result, left, right>>

\* one worker of the fan-out evaluates its candidate
Worker(i) ==
  /\ pc = "running"
  /\ ~slot[i].done
  /\ slot' = [slot EXCEPT ![i] = [done |-> TRUE, out |-> filter_map_closure(nodes[i], call)]]
  /\ UNCHANGED <<pc, tree, call, nodes, result, entry, left, right>>

\* collect(): all workers have returned; Timeline::nodes sorts what they
\* returned; the call returns
Collect ==
  /\ pc = "running"
  /\ \A i \in 1..Len(nodes) : slot[i].done
  /\ result' = IF call.op = "Timeline::nodes" THEN sort_by_time(Flatten(slot)) ELSE Flatten(slot)
  /\ pc' = "done"
  /\ UNCHANGED <<tree, call, nodes, slot, entry, left, right>>

(***************************************************************************)
(* Attribute matching over every attribute list of at most MaxAttrs        *)
(* attributes (at any nesting), on a tree that holds node 1 and not node 2.*)
(***************************************************************************)
MaxAttrs == 3

LeafNames == {"", "inner"}
ContainerNames == {"", "outer"}
AttrTexts == {"x", "y"}
ContainerTypes == {"Attributes", "ReflectStruct"}

Leaf(name, text) == [name |-> name, type |-> "String", text |-> text, attrs |-> <<>>, time |-> 0]
\* the text of a container stands for whatever its value renders to
Container(name, type, attrs) == [name |-> name, type |-> type, text |-> "xy", attrs |-> attrs, time |-> 0]

RECURSIVE TreesOfSize(_), ForestsOfSize(_)
TreesOfSize(n) ==
  IF n = 1
  THEN {Leaf(nm, tx) : nm \in LeafNames, tx \in AttrTexts}
       \cup {Container(nm, ty, <<>>) : nm \in ContainerNames, ty \in ContainerTypes}
  ELSE {Container(nm, ty, f) : nm \in ContainerNames, ty \in ContainerTypes, f \in ForestsOfSize(n - 1)}
ForestsOfSize(n) ==
  IF n = 0 THEN {<<>>}
  ELSE UNION {{<<t>> \o f : t \in TreesOfSize(k), f \in ForestsOfSize(n - k)} : k \in 1..n}

AttrLists == UNION {ForestsOfSize(n) : n \in 0..MaxAttrs}

DottedQueries == {"", "inner", "outer", ".inner", "outer.inner", "outer.outer.inner"}

InitAttr ==
  /\ pc = "idle"
  /\ \E attributes \in AttrLists :
       tree = [node |-> (1 :> [name |-> "outer", attributes |-> attributes]), path |-> <<>>]
  /\ call = NoCall /\ nodes = <<>> /\ slot = <<>> /\ result = <<>>
  /\ entry = Direct /\ left = <<>> /\ right = <<>>

AttrMatchQuery ==
  /\ pc = "idle"
  /\ UNCHANGED entry
  /\ \/ \E q \in DottedQueries : MatchQuery(<<2, 1>>, "AttributeName", "Fixed", q)
     \/ \E m \in MatchMethod \ {"Fixed"}, q \in {"outer.inner", "*inner", "("} :
          MatchQuery(<<2, 1>>, "AttributeName", m, q)
     \/ \E m \in MatchMethod : MatchQuery(<<2, 1>>, "Name", m, "outer")

AttrMatchAttributeQuery ==
  /\ pc = "idle"
  /\ UNCHANGED entry
  /\ \E name \in {"inner", "outer.inner", "*"}, nm \in {"Fixed", "Wildcard"},
        value \in {"x", "y"}, vm \in {"Fixed", "Regex"} :
       MatchAttributeQuery(<<2, 1>>, name, nm, value, vm)

NextAttr ==
  \/ AttrMatchQuery
  \/ AttrMatchAttributeQuery
  \/ \E i \in 1..Len(nodes) : Worker(i)
  \/ Collect

SpecAttr == InitAttr /\ [][NextAttr]_vars

(***************************************************************************)
(* The operations on one tree whose nodes show each per-node outcome, over *)
(* every candidate list of at most MaxLen ids among 1..MaxCand.            *)
(***************************************************************************)
MaxCand == 7

DateLeaf(name, time) == [name |-> name, type |-> "DateTime", text |-> "t", attrs |-> <<>>, time |-> time]
FileAttr(file) ==
  [name |-> "data", type |-> "VFileBuilder", text |-> "", attrs |-> <<>>, time |-> 0, file |-> file]

FileWhole  == [opens |-> TRUE,  size |-> 3, content |-> <<1, 0, 1>>, reads |-> <<>>]
FileBroken == [opens |-> TRUE,  size |-> 3, content |-> <<1, NL, 0>>, reads |-> <<2, -1>>]
FileClosed == [opens |-> FALSE, size |-> 3, content |-> <<1, 0, 1>>, reads |-> <<>>]
FileShort  == [opens |-> TRUE,  size |-> 4, content |-> <<0, 1>>, reads |-> <<>>]

FilterTree ==
  [node |->
     (1 :> [name |-> "inner", attributes |-> <<Leaf("inner", "x"), FileAttr(FileWhole)>>])
     @@ (2 :> [name |-> "outer",
               attributes |-> <<Container("outer", "Attributes", <<Leaf("inner", "y"), DateLeaf("inner", 2)>>),
                                FileAttr(FileBroken)>>])
     @@ (3 :> [name |-> "inner", attributes |-> <<FileAttr(FileClosed), DateLeaf("", 1)>>])
     @@ (4 :> [name |-> "outer", attributes |-> <<Leaf("data", "x")>>])
     @@ (5 :> [name |-> "inner", attributes |-> <<FileAttr(FileShort), DateLeaf("inner", 3)>>])
     @@ (6 :> [name |-> "outer", attributes |-> <<>>]),
   path |-> ("/root" :> <<3, 1, 2>>) @@ ("/root/outer" :> <<2>>)]

Candidates == SeqsUpTo(1..MaxCand, MaxLen)
PathsTried == {"/root", "/root/outer", "/none"}

\* the atomic predicates handed to the operations
NamePredicates ==
  {<<"Name", "Fixed", "inner">>, <<"Name", "Regex", "(">>,
   <<"AttributeName", "Fixed", "outer.inner">>, <<"AttributeName", "Wildcard", "*inner">>}
AttributePredicates ==
  {<<"inner", "Fixed", "x", "Fixed">>, <<"(", "Regex", "x", "Fixed">>,
   <<"inner", "Fixed", "(", "Regex">>, <<"outer.inner", "Fixed", "y", "Regex">>}
DataPredicates == {<<1>>, <<0, 1>>, <<0>>, <<Paren>>}

InitFilter ==
  /\ pc = "idle"
  /\ tree = FilterTree
  /\ call = NoCall /\ nodes = <<>> /\ slot = <<>> /\ result = <<>>
  /\ entry = Direct /\ left = <<>> /\ right = <<>>

\* the evaluation of one atomic predicate of a query on the candidates ns
Atom(ns) ==
  \/ \E q \in NamePredicates : MatchQuery(ns, q[1], q[2], q[3])
  \/ \E q \in AttributePredicates : MatchAttributeQuery(ns, q[1], q[2], q[3], q[4])
  \/ \E q \in DataPredicates : QueryDataRegex(ns, q)
  \/ \E q \in DataPredicates : QueryDataLine(ns, q)

\* the operations called on an explicit candidate list
FilterDirect ==
  /\ pc = "idle"
  /\ \E ns \in Candidates : Atom(ns) /\ entry' = Direct

\* Filter::path(tree, query, path)
FilterPath ==
  /\ pc = "idle"
  /\ \E path \in PathsTried :
       \/ InvalidPath("Filter::path", path)
       \/ /\ has_path(path)
          /\ Atom(tree.path[path])
          /\ entry' = [name |-> "Filter::path", path |-> path]

\* Timeline::path(tree, path, min_time, max_time)
TimelinePath ==
  /\ pc = "idle"
  /\ \E path \in PathsTried :
       \/ InvalidPath("Timeline::path", path)
       \/ /\ has_path(path)
          /\ \E min_time \in 1..2 : TimelineNodes(tree.path[path], min_time, 2)
          /\ entry' = [name |-> "Timeline::path", path |-> path]

NextFilter ==
  \/ FilterDirect
  \/ FilterPath
  \/ TimelinePath
  \/ \E i \in 1..Len(nodes) : Worker(i)
  \/ Collect

SpecFilter == InitFilter /\ [][NextFilter]_vars

(***************************************************************************)
(* Content search over every file of at most MaxFileLen bytes, with every  *)
(* declared size up to one more, and every outcome of its first MaxReads   *)
(* reads; the file is the data attribute of node 1.                        *)
(***************************************************************************)
MaxFileLen == 3
MaxReads   == 2

Bytes == {0, 1, NL}
ReadOutcomes == {-1, 0, 1, ChunkSize}

Files ==
  {[opens |-> TRUE, size |-> sz, content |-> ct, reads |-> rd] :
     sz \in 0..(MaxFileLen + 1), ct \in SeqsUpTo(Bytes, MaxFileLen), rd \in SeqsUpTo(ReadOutcomes, MaxReads)}
  \cup {FileClosed}

InitData ==
  /\ pc = "idle"
  /\ \E file \in Files :
       tree = [node |-> (1 :> [name |-> "file", attributes |-> <<FileAttr(file)>>]), path |-> <<>>]
  /\ call = NoCall /\ nodes = <<>> /\ slot = <<>> /\ result = <<>>
  /\ entry = Direct /\ left = <<>> /\ right = <<>>

DataQueryRegex ==
  /\ pc = "idle"
  /\ UNCHANGED entry
  /\ \E q \in SeqsUpTo(Bytes, 2) \cup {<<Paren>>} : QueryDataRegex(<<1>>, q)

DataQueryLine ==
  /\ pc = "idle"
  /\ UNCHANGED entry
  /\ \E q \in SeqsUpTo(Bytes \ {NL}, 2) \cup {<<Paren>>} : QueryDataLine(<<1>>, q)

NextData ==
  \/ DataQueryRegex
  \/ DataQueryLine
  \/ \E i \in 1..Len(nodes) : Worker(i)
  \/ Collect

SpecData == InitData /\ [][NextData]_vars

(***************************************************************************)
(* The timeline over every attribute list of at most MaxAttrs attributes   *)
(* for node 1, beside a node 2 with one timestamp and a missing node 3.    *)
(***************************************************************************)
MaxTime == 3

TimeContainers == {<<"o", "Attributes">>, <<"o", "ReflectStruct">>, <<"", "Attributes">>}

RECURSIVE TimeTreesOfSize(_), TimeForestsOfSize(_)
TimeTreesOfSize(n) ==
  IF n = 1
  THEN {DateLeaf("t", t) : t \in 1..MaxTime} \cup {Leaf("t", "x")}
       \cup {Container(c[1], c[2], <<>>) : c \in TimeContainers}
  ELSE {Container(c[1], c[2], f) : c \in TimeContainers, f \in TimeForestsOfSize(n - 1)}
TimeForestsOfSize(n) ==
  IF n = 0 THEN {<<>>}
  ELSE UNION {{<<t>> \o f : t \in TimeTreesOfSize(k), f \in TimeForestsOfSize(n - k)} : k \in 1..n}

TimeAttrLists == UNION {TimeForestsOfSize(n) : n \in 0..MaxAttrs}

InitTimeline ==
  /\ pc = "idle"
  /\ \E attributes \in TimeAttrLists :
       tree = [node |-> (1 :> [name |-> "n", attributes |-> attributes])
                        @@ (2 :> [name |-> "m", attributes |-> <<DateLeaf("t", 2)>>]),
               path |-> <<>>]
  /\ call = NoCall /\ nodes = <<>> /\ slot = <<>> /\ result = <<>>
  /\ entry = Direct /\ left = <<>> /\ right = <<>>

TimelineDirect ==
  /\ pc = "idle"
  /\ UNCHANGED entry
  /\ \E ns \in {<<1>>, <<2, 1>>, <<1, 3, 1>>}, min_time \in 1..MaxTime, max_time \in 1..MaxTime :
       TimelineNodes(ns, min_time, max_time)

NextTimeline ==
  \/ TimelineDirect
  \/ \E i \in 1..Len(nodes) : Worker(i)
  \/ Collect

SpecTimeline == InitTimeline /\ [][NextTimeline]_vars

(***************************************************************************)
(* Reference view of a node's attributes: every attribute at every depth,  *)
(* with the chain of names from its top-level ancestor down to itself.     *)
(***************************************************************************)
RECURSIVE Reach(_, _, _)
Reach(attrs, chain, pos) ==
  UNION {
    {[chain |-> Append(chain, attrs[i].name), pos |-> Append(pos, i), attr |-> attrs[i]]}
      \cup (IF IsContainer(attrs[i])
            THEN Reach(attrs[i].attrs, Append(chain, attrs[i].name), Append(pos, i))
            ELSE {})
    : i \in 1..Len(attrs)}

AllAttributes(id) == Reach(tree.node[id].attributes, <<>>, <<>>)

\* the names of a chain joined by "."
RECURSIVE Join(_)
Join(chain) ==
  IF Len(chain) = 1 THEN chain[1]
  ELSE Join(SubSeq(chain, 1, Len(chain) - 1)) \o "." \o chain[Len(chain)]

\* the names of a chain joined by ".", a name being appended without separator
\* to a path that is still the empty string
RECURSIVE DottedName(_)
DottedName(chain) ==
  IF Len(chain) = 1 THEN chain[1]
  ELSE LET path == DottedName(SubSeq(chain, 1, Len(chain) - 1))
       IN  IF Len(path) = 0 THEN chain[Len(chain)] ELSE path \o "." \o chain[Len(chain)]

\* C4: match_attribute_query returns an id iff its node exists and one single
\* attribute of it, at any depth, has both its dotted name matching the name
\* pattern and its rendered value matching the value pattern.
C4_NameAndValueOnSameAttribute ==
  (pc = "done" /\ call.op = "match_attribute_query") =>
    \A id \in ToSet(nodes) :
      contains(result, id) <=>
        /\ has_node(id)
        /\ \E r \in AllAttributes(id) :
             /\ is_match(new(call.name_method, call.name), call.name, DottedName(r.chain))
             /\ is_match(new(call.value_method, call.value), call.value, r.attr.text)

\* the name matches on one attribute and the value on another one only: not returned
C4_Witness ==
  /\ pc = "done"
  /\ call = [op |-> "match_attribute_query", name |-> "inner", name_method |-> "Fixed",
             value |-> "y", value_method |-> "Fixed"]
  /\ tree.node[1].attributes = <<Leaf("inner", "x"), Leaf("", "y")>>
  /\ nodes = <<2, 1>>
  /\ result = <<>>

IsFixedAttributeNameQuery ==
  /\ call.op = "match_query"
  /\ call.query_type = "AttributeName"
  /\ call.method = "Fixed"

\* C5 as claimed: under Fixed / AttributeName a node is matched by a query iff
\* the query is the "."-joined chain of all the ancestor names of one of its
\* attributes followed by that attribute's name.
C5_Original ==
  (pc = "done" /\ IsFixedAttributeNameQuery) =>
    (contains(result, 1) <=>
       \E r \in AllAttributes(1) : Join(r.chain) = call.query)

\* C5 as amended: the name tested is the chain joined by ".", except that a
\* name is appended without "." while the path accumulated so far is empty
\* (ancestors named "" at the top of the chain leave no segment); "outer.inner"
\* matches a leaf inner nested in outer, and "inner" alone does not.
C5_DottedNameTested ==
  (pc = "done" /\ IsFixedAttributeNameQuery) =>
    (contains(result, 1) <=>
       \E r \in AllAttributes(1) : DottedName(r.chain) = call.query)

\* a leaf two levels down is matched by the three-segment name
C5_Witness ==
  /\ pc = "done"
  /\ IsFixedAttributeNameQuery
  /\ call.query = "outer.outer.inner"
  /\ tree.node[1].attributes =
       <<Container("outer", "Attributes", <<Container("outer", "ReflectStruct", <<Leaf("inner", "x")>>)>>)>>
  /\ result = <<1>>

\* C11: in both traversals (name-only and name+value) a node matches iff one
\* of its leaf attributes, an attribute of a type other than Attributes and
\* ReflectStruct, passes the match test; a nesting attribute's own dotted name
\* and rendered value are never tested.
C11_Original ==
  /\ (pc = "done" /\ call.op = "match_query" /\ call.query_type = "AttributeName") =>
       (contains(result, 1) <=>
          \E r \in AllAttributes(1) :
            /\ ~IsContainer(r.attr)
            /\ is_match(new(call.method, call.query), call.query, DottedName(r.chain)))
  /\ (pc = "done" /\ call.op = "match_attribute_query") =>
       (contains(result, 1) <=>
          \E r \in AllAttributes(1) :
            /\ ~IsContainer(r.attr)
            /\ is_match(new(call.name_method, call.name), call.name, DottedName(r.chain))
            /\ is_match(new(call.value_method, call.value), call.value, r.attr.text))


(***************************************************************************)
(* Claims on the filtering operations (SpecFilter).                        *)
(***************************************************************************)
IsFilterCall ==
  call.op \in {"match_query", "match_attribute_query", "query_data_regex", "query_data_line"}

IsDataCall == call.op \in {"query_data_regex", "query_data_line"}

StructuralFailure(id) ==
  \/ ~has_node(id)
  \/ /\ IsDataCall
     /\ LET attributes == tree.node[id].attributes
            named == {i \in 1..Len(attributes) : attributes[i].name = "data"}
        IN  \/ named = {}
            \/ LET first == CHOOSE i \in named : \A j \in named : i <= j
               IN  \/ attributes[first].type # "VFileBuilder"
                   \/ ~attributes[first].file.opens

\* C7 as claimed: a node whose test runs into any failure, a read error or a
\* zero-byte read before the declared size included, is not in the result
C7_Original ==
  (pc = "done" /\ IsFilterCall) =>
    \A id \in ToSet(nodes) : node_test(id, call).fault # "none" => ~contains(result, id)

\* C7 as amended: a candidate is in the result iff its own test matches,
\* whatever the other candidates and the order of the workers; a missing id,
\* a missing or non-file data attribute or an open error makes it a
\* non-match in every operation; a read error or a zero-byte read before the
\* declared size makes it a non-match in query_data_regex (in query_data_line
\* the lines delimited before the failure still count); none of these makes
\* the call fail.
C7_PerNodeIsolation ==
  IsFilterCall =>
    /\ pc = "done" =>
         \A i \in 1..Len(nodes) :
           LET id == nodes[i]
               alone == node_test(id, call)
           IN  /\ contains(result, id) <=> (slot[i].out = <<id>>)
               /\ contains(result, id) <=> alone.matched
               /\ StructuralFailure(id) => ~contains(result, id)
               /\ (call.op = "query_data_regex" /\ alone.fault # "none") => ~contains(result, id)
    /\ (pc = "error") =>
         \/ call.op = "match_query" /\ ~regex_compiles(call.query)
         \/ call.op = "match_attribute_query"
              /\ (~regex_compiles(call.name) \/ ~regex_compiles(call.value))
         \/ IsDataCall /\ ~bytes_compiles(call.query)

\* a read error on node 2 and a match on node 1, in both orders of the list
C7_Witness ==
  /\ pc = "done"
  /\ call = [op |-> "query_data_regex", query |-> <<0>>]
  /\ nodes = <<2, 1, 7>>
  /\ node_test(2, call).fault = "read error"
  /\ result = <<1>>

\* the call names a pattern that does not compile
BadPattern ==
  \/ call.op = "match_query" /\ call.method = "Regex" /\ ~regex_compiles(call.query)
  \/ call.op = "match_attribute_query"
       /\ \/ call.name_method = "Regex" /\ ~regex_compiles(call.name)
          \/ call.value_method = "Regex" /\ ~regex_compiles(call.value)
  \/ IsDataCall /\ ~bytes_compiles(call.query)

BadPath == entry.name \in {"Filter::path", "Timeline::path"} /\ ~has_path(entry.path)

\* C8: a pattern that does not compile or a path that does not resolve makes
\* the call an error, with no candidate evaluated and nothing returned.
C8_FailFast ==
  /\ (BadPattern \/ BadPath) => pc = "error"
  /\ pc = "error" =>
       /\ \A i \in 1..Len(slot) : ~slot[i].done
       /\ result = <<>>

\* the value pattern of match_attribute_query does not compile
C8_Witness ==
  /\ pc = "error"
  /\ call.op = "match_attribute_query"
  /\ call.value = "("
  /\ nodes = <<1, 2, 3>>

(***************************************************************************)
(* Claims on match_data_regex (SpecData).                                  *)
(***************************************************************************)
\* the bytes delivered by each read of the scan of a file, match or no match
RECURSIVE ChunksRead(_, _, _, _)
ChunksRead(file, readed, pos, k) ==
  IF ~(readed < file.size) THEN {}
  ELSE LET n == read_len(file, pos, k, ChunkSize)
       IN  IF n <= 0 THEN {}
           ELSE {SubSeq(file.content, pos + 1, pos + n)} \cup ChunksRead(file, readed + n, pos + n, k + 1)

\* C6: match_data_regex reports a match iff the pattern matches inside the
\* bytes delivered by one single read of the file.
C6_Original ==
  (pc = "done" /\ call.op = "query_data_regex" /\ open_data(tree.node[1]) = "none") =>
    (contains(result, 1) <=>
       \E chunk \in ChunksRead(data_file(tree.node[1]), 0, 0, 1) : bytes_is_match(call.query, chunk))

\* every read of the stream fills the whole buffer: the buffer then holds the
\* bytes of the chunk just read and nothing else
FullReads(file) == file.reads = <<>> /\ Len(file.content) % ChunkSize = 0

\* the bytes of the stream located before the declared size
WithinSize(file) == SubSeq(file.content, 1, Min(file.size, Len(file.content)))

\* C12: match_data_regex reads and tests no byte located past size() in the
\* stream: a node is a match only if the pattern matches within the bytes
\* before the declared size (stated for streams read in full buffers).
C12_Original ==
  (/\ pc = "done" /\ call.op = "query_data_regex"
   /\ open_data(tree.node[1]) = "none"
   /\ FullReads(data_file(tree.node[1]))) =>
    (contains(result, 1) => bytes_is_match(call.query, WithinSize(data_file(tree.node[1]))))


(***************************************************************************)
(* Claims on the timeline (SpecTimeline).                                  *)
(***************************************************************************)
\* C9: every TimeInfo returned lies within [min, max] and the whole sequence
\* is in non-decreasing time order.
C9_InRangeAndSorted ==
  (pc = "done" /\ call.op = "Timeline::nodes") =>
    /\ \A i \in 1..Len(result) :
         call.min_time <= result[i].time /\ result[i].time <= call.max_time
    /\ \A i \in 1..(Len(result) - 1) : result[i].time <= result[i + 1].time

\* the entries of two nodes interleaved by time
C9_Witness ==
  /\ pc = "done"
  /\ nodes = <<2, 1>>
  /\ result = <<[time |-> 1, attribute_name |-> "t", id |-> 1],
                [time |-> 2, attribute_name |-> "t", id |-> 2],
                [time |-> 3, attribute_name |-> "o.t", id |-> 1]>>

\* the TimeInfo owed to the attribute r of the node of candidate index i
OwedInfo(i, r) == [time |-> r.attr.time, attribute_name |-> DottedName(r.chain), id |-> nodes[i]]

\* the in-range timestamp attributes of the existing nodes of the input, one
\* per element of the input list
Owed ==
  {<<i, r>> \in UNION {{<<j, q>> : q \in AllAttributes(nodes[j])} : j \in {k \in 1..Len(nodes) : has_node(nodes[k])}} :
     /\ r.attr.type = "DateTime"
     /\ call.min_time <= r.attr.time
     /\ r.attr.time <= call.max_time}

\* C10: the timeline holds exactly one TimeInfo per in-range timestamp
\* attribute, at any depth, of each existing node of the input list, with the
\* node's id and the attribute's dotted name, and nothing else.
C10_TimelineExact ==
  (pc = "done" /\ call.op = "Timeline::nodes") =>
    \A x \in ToSet(result) \cup {OwedInfo(o[1], o[2]) : o \in Owed} :
      Cardinality({i \in 1..Len(result) : result[i] = x})
        = Cardinality({o \in Owed : OwedInfo(o[1], o[2]) = x})

\* two in-range timestamps, one of them nested, and one out of range
C10_Witness ==
  /\ pc = "done"
  /\ nodes = <<2, 1>>
  /\ call.min_time = 2 /\ call.max_time = 3
  /\ tree.node[1].attributes =
       <<DateLeaf("t", 1), Container("o", "ReflectStruct", <<DateLeaf("t", 3)>>)>>
  /\ Len(result) = 2

====
